---- MODULE Spec2Model ----
(***************************************************************************)
(* The image-resolution chain of audio_int_gpt.py: get_bird_image, which   *)
(* asks Wikipedia (ja, then en; summary, then media-list; each fetch with  *)
(* retries and backoff) and, when that yields nothing, scrapes DuckDuckGo  *)
(* (search page for the vqd token, then the i.js image JSON).              *)
(*                                                                         *)
(* The upstream services are the environment: every GET draws its outcome  *)
(* (a transport exception or a status code) and, on 200, its body from a   *)
(* small set.  JSON values are abstracted to the shapes the code tells     *)
(* apart: a missing or falsy field, a truthy value that is not an object,  *)
(* an object, the empty string, a non-empty string.                        *)
(***************************************************************************)
EXTENDS Integers, Sequences, FiniteSets, TLC

VARIABLES
    pc,         \* position in the call of get_bird_image
    species,    \* species_name, the argument of get_bird_image
    lang,       \* loop variable of get_wikipedia_image: "ja" or "en"
    stage,      \* the lookup in progress: "summary" or "media-list"
    attempt,    \* loop variable of _request_with_retries
    data,       \* body of the response to the latest GET (res / data): NoData
                \* when that GET failed or fetched the search page
    page,       \* r1.text of the DuckDuckGo search page, once fetched
    vqd,        \* the token extracted from the search page
    img,        \* the value the latest lookup or function handed back
    wiki,       \* img of get_bird_image: what get_wikipedia_image returned
    ret,        \* the return value of get_bird_image
    log,        \* history: every GET issued and every sleep, in order
    served,     \* history: what the services answered to the GETs of this call,
                \* kept only where a later call is to meet the same answers
    earlier     \* history: the call of get_bird_image made before this one

vars == <<pc, species, lang, stage, attempt, data, page, vqd, img, wiki, ret,
          log, served, earlier>>

(***************************************************************************)
(* Bounds of the model and constants of the program.                       *)
(***************************************************************************)
\* retries: int = 2, the default every caller uses
Retries == 2
\* longest srcset of a media-list item
MaxSrcset == 2
\* most items of a media list
MaxItems == 2
\* most entries of the results list of the image JSON
MaxResults == 2

(***************************************************************************)
(* Values.                                                                 *)
(***************************************************************************)
\* Python's None, also standing for a missing key
None == "<None>"
\* a local not assigned yet
Unset == "<unset>"
\* the empty string
Empty == ""
\* a truthy JSON value that is not an object where one is expected
NonObj == [kind |-> "nonobj"]

\* a non-empty string served in field f of the entry at position i
Url(f, i) == "https://" \o f \o "/" \o ToString(i)

\* Python truthiness of a string-or-None value: `if x:`
Truthy(v) == v # None /\ v # Empty

Names == {"suzume", "mejiro"}
Langs == <<"ja", "en">>

\* outcome of one requests.get: a transport exception, or a status code
Statuses == {200, 204, 404}
Outcomes == {[exc |-> TRUE, status |-> 0]} \cup
            {[exc |-> FALSE, status |-> s] : s \in Statuses}

(***************************************************************************)
(* The history.                                                            *)
(***************************************************************************)
\* a GET to endpoint ep of site with title/query q (and token v); ok records
\* whether the attempt really came back with status 200
Get(site, ep, q, v, o) ==
    [ev |-> "get", site |-> site, ep |-> ep, q |-> q, vqd |-> v,
     ok |-> (~o.exc /\ o.status = 200), delay |-> 0]
\* a time.sleep of d tenths of a second
Sleep(d) ==
    [ev |-> "sleep", site |-> "", ep |-> "", q |-> "", vqd |-> None,
     ok |-> FALSE, delay |-> d]

(***************************************************************************)
(* JSON shapes.  A field that should hold an object ({"source": ...}) is   *)
(* Absent (missing, null or otherwise falsy: `x or {}` makes it {}),       *)
(* NonObj (truthy but without .get) or an object with its source.          *)
(***************************************************************************)
Absent == [kind |-> "absent"]
Obj(src) == [kind |-> "obj", source |-> src]
SourceValues(f) == {None, Empty, Url(f, 1)}
ObjFields(f) == {Absent, NonObj} \cup {Obj(s) : s \in SourceValues(f)}

\* what a function hands back: a value, or an exception leaving it
Ret(v) == [raised |-> FALSE, value |-> v]
Raise == [raised |-> TRUE, value |-> None]

\* (x or {}).get("source")
source_of(f) ==
    CASE f.kind = "absent" -> Ret(None)
      [] f.kind = "nonobj" -> Raise
      [] f.kind = "obj" -> Ret(f.source)

\* bodies of a 200 response of the summary endpoint
NotJson == [kind |-> "notjson"]
SummaryBodies ==
    {NotJson, NonObj} \cup
    {[kind |-> "obj", thumbnail |-> t, originalimage |-> o] :
        t \in ObjFields("thumbnail"), o \in ObjFields("originalimage")}

\* Faulty variant: the original image is preferred to the thumbnail.
get_from_summary_original_first(body) ==
    CASE body.kind = "notjson" -> Ret(None)
      [] body.kind = "nonobj" -> Raise
      [] body.kind = "obj" ->
            LET thumb == source_of(body.thumbnail)
                original == source_of(body.originalimage)
            IN  IF original.raised THEN Raise
                ELSE IF Truthy(original.value) THEN Ret(original.value)
                ELSE thumb

\* _get_from_summary once the response is there: res.json() and the two fields
get_from_summary(body) ==
    CASE body.kind = "notjson" -> Ret(None)
      [] body.kind = "nonobj" -> Raise
      [] body.kind = "obj" ->
            LET thumb == source_of(body.thumbnail)
                original == source_of(body.originalimage)
            IN  IF thumb.raised THEN Raise
                ELSE IF Truthy(thumb.value) THEN Ret(thumb.value)
                ELSE original

(***************************************************************************)
(* The media list.  A width is missing (or falsy), an int, a float (v+0.5),*)
(* a non-empty string, or true (which Python counts as the int 1).         *)
(***************************************************************************)
NoWidth == [kind |-> "absent", v |-> 0]
IntWidth(n) == [kind |-> "int", v |-> n]
Widths ==
    {NoWidth, [kind |-> "float", v |-> 300], [kind |-> "str", v |-> 400],
     [kind |-> "bool", v |-> 1]} \cup
    {IntWidth(n) : n \in {-5, 0, 100, 300}}

\* the srcset entries that may stand at position i
Variants(i) ==
    {NonObj} \cup
    {[kind |-> "obj", src |-> s, width |-> w] :
        s \in {None, Empty, Url("src", i)}, w \in Widths}

\* all sequences of length n whose i-th element is drawn from E[i]
RECURSIVE SeqsAt(_, _)
SeqsAt(E, n) ==
    IF n = 0 THEN {<<>>}
    ELSE {Append(s, e) : s \in SeqsAt(E, n - 1), e \in E[n]}

\* all sequences of length at most n whose i-th element is drawn from E[i]
SeqsUpTo(E, n) == UNION {SeqsAt(E, k) : k \in 0..n}

\* s.get("width") or 0
width_or_0(w) ==
    IF w.kind = "absent" \/ (w.kind = "int" /\ w.v = 0) THEN IntWidth(0) ELSE w

\* isinstance(width, int)
is_int(w) == w.kind \in {"int", "bool"}

\* Faulty variant: `>=`, so that of two entries of equal width the later wins.
srcset_takes_ge(s, best_w) ==
    LET width == width_or_0(s.width)
    IN  Truthy(s.src) /\ is_int(width) /\ width.v >= best_w

\* `if src and isinstance(width, int) and width > best_w`
srcset_takes(s, best_w) ==
    LET width == width_or_0(s.width)
    IN  Truthy(s.src) /\ is_int(width) /\ width.v > best_w

\* the loop over srcset from entry i on, with best and best_w so far
RECURSIVE srcset_loop(_, _, _, _)
srcset_loop(srcset, i, best, best_w) ==
    IF i > Len(srcset) THEN Ret(best)
    ELSE IF srcset[i].kind = "nonobj" THEN Raise
    ELSE IF srcset_takes(srcset[i], best_w)
         THEN srcset_loop(srcset, i + 1, srcset[i].src,
                          width_or_0(srcset[i].width).v)
         ELSE srcset_loop(srcset, i + 1, best, best_w)

\* best of one item's srcset: best = None, best_w = -1, then the loop
best_of_srcset(srcset) == srcset_loop(srcset, 1, None, -1)

\* the loop over items from item i on
RECURSIVE items_loop(_, _)
items_loop(items, i) ==
    IF i > Len(items) THEN Ret(None)
    ELSE LET item == items[i] IN
         IF item.kind = "nonobj" THEN items_loop(items, i + 1)
         ELSE IF item.type # "image" THEN items_loop(items, i + 1)
         ELSE LET original == source_of(item.original)
                  best == best_of_srcset(item.srcset)
              IN  IF original.raised THEN Raise
                  ELSE IF Truthy(original.value) THEN original
                  ELSE IF best.raised THEN Raise
                  ELSE IF Truthy(best.value) THEN best
                  ELSE items_loop(items, i + 1)

\* _get_from_media_list once the response is there
get_from_media_list(body) ==
    CASE body.kind = "notjson" -> Ret(None)
      [] body.kind = "nonobj" -> Raise
      [] body.kind = "obj" -> items_loop(body.items, 1)

ItemTypes == {"image", "video"}
Item(t, o, ss) == [kind |-> "obj", type |-> t, original |-> o, srcset |-> ss]
MediaBody(items) == [kind |-> "obj", items |-> items]

\* bodies the media-list endpoint serves inside the whole chain: at most one
\* item, with at most one srcset entry
ChainVariants(i) ==
    {NonObj, [kind |-> "obj", src |-> Url("src", i), width |-> IntWidth(100)]}
ChainItems(i) ==
    {NonObj} \cup
    {Item(t, o, ss) : t \in ItemTypes, o \in ObjFields("original"),
                      ss \in SeqsUpTo(<<ChainVariants(1)>>, 1)}
ChainMediaBodies ==
    {NotJson, NonObj} \cup {MediaBody(its) : its \in SeqsUpTo(<<ChainItems(1)>>, 1)}

\* bodies for the srcset choice alone: one item, any srcset up to MaxSrcset
SrcsetMediaBodies ==
    {MediaBody(<<Item(t, o, ss)>>) :
        t \in ItemTypes, o \in {Absent, Obj(Url("original", 1))},
        ss \in SeqsUpTo([i \in 1..MaxSrcset |-> Variants(i)], MaxSrcset)}

\* bodies for the scan of the items: up to MaxItems items, the item at
\* position i carrying URLs that name i
ItemVariant(i, k, w) ==
    [kind |-> "obj", src |-> Url("src", 10 * i + k), width |-> IntWidth(w)]
ItemSrcsets(i) ==
    {<<>>, <<NonObj>>, <<ItemVariant(i, 1, 100)>>,
     <<ItemVariant(i, 1, 100), ItemVariant(i, 2, 300)>>}
ItemsAt(i) ==
    {NonObj} \cup
    {Item(t, o, ss) : t \in ItemTypes,
                      o \in {Absent, Obj(Empty), Obj(Url("original", i))},
                      ss \in ItemSrcsets(i)}
ItemsMediaBodies ==
    {MediaBody(its) :
        its \in SeqsUpTo([i \in 1..MaxItems |-> ItemsAt(i)], MaxItems)}

(***************************************************************************)
(* The scrape.  Of the search page only what the two patterns find matters:*)
(* the token of the first vqd='...' match and of the first "vqd":"..."     *)
(* match, None where the pattern does not match.                           *)
(***************************************************************************)
Pages == [assign : {None, "tok-assign"}, jsonkey : {None, "tok-json"}]

\* the two re.search calls: the quoted assignment first, then the JSON key
extract_vqd(pg) == IF pg.assign # None THEN pg.assign ELSE pg.jsonkey

ResultEntries(i) ==
    {NonObj} \cup
    {[kind |-> "obj", image |-> im, thumbnail |-> th] :
        im \in {None, Empty, Url("image", i)},
        th \in {None, Empty, Url("thumbnail", i)}}

\* bodies the image JSON endpoint serves: at most one result
DdgBodies ==
    {NotJson, NonObj} \cup
    {[kind |-> "obj", results |-> rs] : rs \in SeqsUpTo(<<ResultEntries(1)>>, 1)}

\* bodies for the reading of the results alone: up to MaxResults entries, the
\* entry at position i carrying URLs that name i
ScrapeBodies ==
    {NotJson, NonObj} \cup
    {[kind |-> "obj", results |-> rs] :
        rs \in SeqsUpTo([i \in 1..MaxResults |-> ResultEntries(i)], MaxResults)}

\* first.get("image") or first.get("thumbnail")
image_or_thumbnail(first) ==
    IF Truthy(first.image) THEN first.image ELSE first.thumbnail

\* Faulty variant: the results are searched for the first entry that has an
\* image or a thumbnail.
ddg_first_image_of_any(body) ==
    CASE body.kind = "notjson" -> None
      [] body.kind = "nonobj" -> None
      [] body.kind = "obj" ->
            LET with == {i \in 1..Len(body.results) :
                            /\ body.results[i].kind = "obj"
                            /\ Truthy(image_or_thumbnail(body.results[i]))}
            IN  IF with = {} THEN None
                ELSE image_or_thumbnail(
                        body.results[CHOOSE i \in with : \A j \in with : i <= j])

\* r2.json() and what follows, inside the try whose except returns None
ddg_first_image(body) ==
    CASE body.kind = "notjson" -> None
      [] body.kind = "nonobj" -> None
      [] body.kind = "obj" ->
            IF body.results = <<>> THEN None
            ELSE IF body.results[1].kind = "nonobj" THEN None
            ELSE image_or_thumbnail(body.results[1])

(***************************************************************************)
(* _request_with_retries.                                                  *)
(***************************************************************************)
\* Faulty variant: any 2xx status counts as success (res.ok).
is_success_2xx(status) == status \in 200..299

\* `if res.status_code == 200: return res`
is_success(status) == status = 200

\* Faulty variant: the loop runs once more, range(retries + 2).
has_next_attempt_one_more(a) == a + 1 < Retries + 2

\* `for attempt in range(retries + 1)`: is there an iteration after this one
has_next_attempt(a) == a + 1 < Retries + 1

\* Faulty variant: the sleep is not guarded, so it follows the last failure too.
should_sleep_always(a) == TRUE

\* `if attempt < retries:` before the sleep
should_sleep(a) == a < Retries

\* Faulty variant: the delay is 0.4 * attempt, so the first sleep is none.
backoff_delay_by_index(a) == 4 * a

\* time.sleep(0.4 * (attempt + 1)), in tenths of a second
backoff_delay(a) == 4 * (a + 1)

\* where a lookup's value goes: _get_from_summary hands it to
\* _get_image_from_lang, _get_from_media_list's is returned to the loop
after_lookup(st) == IF st = "summary" THEN "after_summary" ELSE "wiki_loop"

Bodies(st) == IF st = "summary" THEN SummaryBodies ELSE ChainMediaBodies

NoData == [kind |-> "none"]
NoPage == [kind |-> "none"]

\* one iteration of the retry loop up to the return or the except
request_with_retries_attempt ==
    /\ pc = "attempt"
    /\ \E o \in Outcomes :
        /\ log' = Append(log, Get(lang, stage, species, None, o))
        /\ IF ~o.exc /\ is_success(o.status)
           THEN /\ \E body \in Bodies(stage) : data' = body
                /\ pc' = "json"
           ELSE /\ data' = NoData
                /\ pc' = "backoff"
    /\ UNCHANGED <<species, lang, stage, attempt, page, vqd, img, wiki, ret>>

\* after a failed attempt: the sleep, then the next iteration or `return None`
\* (on which the lookup itself returns None: `if not res: return None`)
request_with_retries_backoff ==
    /\ pc = "backoff"
    /\ log' = IF should_sleep(attempt)
              THEN Append(log, Sleep(backoff_delay(attempt)))
              ELSE log
    /\ IF has_next_attempt(attempt)
       THEN /\ attempt' = attempt + 1
            /\ pc' = "attempt"
            /\ img' = img
       ELSE /\ attempt' = attempt
            /\ pc' = after_lookup(stage)
            /\ img' = None
    /\ UNCHANGED <<species, lang, stage, data, page, vqd, wiki, ret>>

(***************************************************************************)
(* get_wikipedia_image.                                                    *)
(***************************************************************************)
\* _get_from_summary from res.json() on
get_from_summary_parse ==
    /\ pc = "json"
    /\ stage = "summary"
    /\ LET r == get_from_summary(data)
       IN  IF r.raised
           THEN pc' = "raised" /\ img' = img
           ELSE pc' = after_lookup(stage) /\ img' = r.value
    /\ UNCHANGED <<species, lang, stage, attempt, data, page, vqd, wiki, ret, log>>

\* _get_from_media_list from res.json() on
get_from_media_list_parse ==
    /\ pc = "json"
    /\ stage = "media-list"
    /\ LET r == get_from_media_list(data)
       IN  IF r.raised
           THEN pc' = "raised" /\ img' = img
           ELSE pc' = after_lookup(stage) /\ img' = r.value
    /\ UNCHANGED <<species, lang, stage, attempt, data, page, vqd, wiki, ret, log>>

\* `if img: return img` of _get_image_from_lang
summary_found(v) == Truthy(v)

\* _get_image_from_lang after the summary: return it, or go to the media list
get_image_from_lang_choose ==
    /\ pc = "after_summary"
    /\ IF summary_found(img)
       THEN pc' = "wiki_loop" /\ UNCHANGED <<stage, attempt>>
       ELSE pc' = "attempt" /\ stage' = "media-list" /\ attempt' = 0
    /\ UNCHANGED <<species, lang, data, page, vqd, img, wiki, ret, log>>

\* Faulty variant: the loop does not return what a language found.
lang_found_never(v) == FALSE

\* `if img: return img` of the loop over the languages
lang_found(v) == Truthy(v)

\* is there a language after l in ("ja", "en")
has_next_lang(l) == \E i \in 1..(Len(Langs) - 1) : Langs[i] = l
next_lang(l) == Langs[(CHOOSE i \in 1..Len(Langs) : Langs[i] = l) + 1]

\* the loop of get_wikipedia_image once a language has answered
get_wikipedia_image_loop ==
    /\ pc = "wiki_loop"
    /\ IF lang_found(img)
       THEN /\ wiki' = img
            /\ pc' = "top"
            /\ UNCHANGED <<lang, stage, attempt>>
       ELSE IF has_next_lang(lang)
       THEN /\ lang' = next_lang(lang)
            /\ stage' = "summary"
            /\ attempt' = 0
            /\ pc' = "attempt"
            /\ wiki' = wiki
       ELSE /\ wiki' = None
            /\ pc' = "top"
            /\ UNCHANGED <<lang, stage, attempt>>
    /\ UNCHANGED <<species, data, page, vqd, img, ret, log>>

(***************************************************************************)
(* get_duckduckgo_image.                                                   *)
(***************************************************************************)
\* Faulty variant: any 2xx status lets the scrape go on.
ddg_status_ok_2xx(status) == status \in 200..299

\* `if r1.status_code != 200: return None`, and the same for r2
ddg_status_ok(status) == status = 200

\* Faulty variant: a failed search page is requested again, as the
\* encyclopedia fetches are, up to Retries + 1 times.
get_duckduckgo_image_search_retrying ==
    /\ pc = "ddg_search"
    /\ \E o \in Outcomes :
        /\ log' = Append(log, Get("ddg", "search", species, None, o))
        /\ IF o.exc \/ ~ddg_status_ok(o.status)
           THEN /\ img' = None
                /\ pc' = IF Cardinality({i \in 1..Len(log) : log[i].site = "ddg"})
                             < Retries
                          THEN "ddg_search" ELSE "ddg_ret"
                /\ UNCHANGED <<page, vqd>>
           ELSE \E pg \in Pages :
                /\ page' = pg
                /\ IF extract_vqd(pg) = None
                   THEN img' = None /\ pc' = "ddg_ret" /\ vqd' = vqd
                   ELSE img' = img /\ pc' = "ddg_json" /\ vqd' = extract_vqd(pg)
    /\ data' = NoData
    /\ UNCHANGED <<species, lang, stage, attempt, wiki, ret>>

\* step 1: the search page and the token
get_duckduckgo_image_search ==
    /\ pc = "ddg_search"
    /\ \E o \in Outcomes :
        /\ log' = Append(log, Get("ddg", "search", species, None, o))
        /\ IF o.exc \/ ~ddg_status_ok(o.status)
           THEN /\ img' = None
                /\ pc' = "ddg_ret"
                /\ UNCHANGED <<page, vqd>>
           ELSE \E pg \in Pages :
                /\ page' = pg
                /\ IF extract_vqd(pg) = None
                   THEN img' = None /\ pc' = "ddg_ret" /\ vqd' = vqd
                   ELSE img' = img /\ pc' = "ddg_json" /\ vqd' = extract_vqd(pg)
    /\ data' = NoData
    /\ UNCHANGED <<species, lang, stage, attempt, wiki, ret>>

\* step 2: the request for the image JSON
get_duckduckgo_image_json ==
    /\ pc = "ddg_json"
    /\ \E o \in Outcomes :
        /\ log' = Append(log, Get("ddg", "i.js", species, vqd, o))
        /\ IF o.exc \/ ~ddg_status_ok(o.status)
           THEN img' = None /\ data' = NoData /\ pc' = "ddg_ret"
           ELSE \E body \in DdgBodies :
                data' = body /\ img' = img /\ pc' = "ddg_parse"
    /\ UNCHANGED <<species, lang, stage, attempt, page, vqd, wiki, ret>>

\* step 2 from r2.json() on: the first result
get_duckduckgo_image_first ==
    /\ pc = "ddg_parse"
    /\ img' = ddg_first_image(data)
    /\ pc' = "ddg_ret"
    /\ UNCHANGED <<species, lang, stage, attempt, data, page, vqd, wiki, ret,
                   log>>

(***************************************************************************)
(* get_bird_image.                                                         *)
(***************************************************************************)
\* Faulty variant: the result is memoised, so that a call after a finished one
\* answers from the memo without any request.
get_bird_image_call_memoised ==
    /\ pc = "call"
    /\ IF earlier.kind = "call" /\ earlier.pc = "done"
       THEN /\ pc' = "done"
            /\ ret' = earlier.ret
            /\ UNCHANGED <<lang, stage, attempt>>
       ELSE /\ lang' = Langs[1]
            /\ stage' = "summary"
            /\ attempt' = 0
            /\ pc' = "attempt"
            /\ ret' = ret
    /\ UNCHANGED <<species, data, page, vqd, img, wiki, log>>

\* the call: get_wikipedia_image starts with ja, the summary, attempt 0
get_bird_image_call ==
    /\ pc = "call"
    /\ lang' = Langs[1]
    /\ stage' = "summary"
    /\ attempt' = 0
    /\ pc' = "attempt"
    /\ UNCHANGED <<species, data, page, vqd, img, wiki, ret, log>>

\* Faulty variant: the test is inverted (`if not img`).
wikipedia_found_inverted(v) == ~Truthy(v)

\* `if img: return img` of get_bird_image
wikipedia_found(v) == Truthy(v)

\* return the encyclopedia's image, or call get_duckduckgo_image
get_bird_image_choose ==
    /\ pc = "top"
    /\ IF wikipedia_found(wiki)
       THEN pc' = "done" /\ ret' = wiki
       ELSE pc' = "ddg_search" /\ ret' = ret
    /\ UNCHANGED <<species, lang, stage, attempt, data, page, vqd, img, wiki,
                   log>>

\* Faulty variant: the scrape is called and its value dropped (no `return`).
scrape_result_dropped(v) == None

\* `return get_duckduckgo_image(species_name)`
scrape_result(v) == v

get_bird_image_return ==
    /\ pc = "ddg_ret"
    /\ ret' = scrape_result(img)
    /\ pc' = "done"
    /\ UNCHANGED <<species, lang, stage, attempt, data, page, vqd, img, wiki,
                   log>>

(***************************************************************************)
(* The specifications.                                                     *)
(***************************************************************************)
\* no call came before this one
NoCall == [kind |-> "none"]

\* a step of one call leaves the record of the calls alone
Idle == UNCHANGED <<served, earlier>>

Init ==
    /\ pc = "call"
    /\ species \in Names
    /\ lang = Langs[1]
    /\ stage = "summary"
    /\ attempt = 0
    /\ data = NoData
    /\ page = NoPage
    /\ vqd = None
    /\ img = None
    /\ wiki = Unset
    /\ ret = Unset
    /\ log = <<>>
    /\ served = <<>>
    /\ earlier = NoCall

Next ==
    \/ get_bird_image_call /\ Idle
    \/ request_with_retries_attempt /\ Idle
    \/ request_with_retries_backoff /\ Idle
    \/ get_from_summary_parse /\ Idle
    \/ get_from_media_list_parse /\ Idle
    \/ get_image_from_lang_choose /\ Idle
    \/ get_wikipedia_image_loop /\ Idle
    \/ get_bird_image_choose /\ Idle
    \/ get_duckduckgo_image_search /\ Idle
    \/ get_duckduckgo_image_json /\ Idle
    \/ get_duckduckgo_image_first /\ Idle
    \/ get_bird_image_return /\ Idle

\* one call of get_bird_image against arbitrary upstream services
Spec == Init /\ [][Next]_vars

\* the same call, running on: the code is synchronous and every request
\* completes or times out, so that a step that can be taken is taken
SpecFair == Spec /\ WF_vars(Next)

\* _get_from_media_list alone, on a 200 response with any body of
\* SrcsetMediaBodies
InitMedia ==
    /\ pc = "json"
    /\ species \in Names
    /\ lang \in {Langs[1], Langs[2]}
    /\ stage = "media-list"
    /\ attempt = 0
    /\ data \in SrcsetMediaBodies
    /\ page = NoPage
    /\ vqd = None
    /\ img = None
    /\ wiki = Unset
    /\ ret = Unset
    /\ log = <<>>
    /\ served = <<>>
    /\ earlier = NoCall

NextMedia == get_from_media_list_parse /\ Idle

SpecMedia == InitMedia /\ [][NextMedia]_vars

\* _get_from_media_list alone, on a 200 response with any body of
\* ItemsMediaBodies
InitItems ==
    /\ pc = "json"
    /\ species \in Names
    /\ lang \in {Langs[1], Langs[2]}
    /\ stage = "media-list"
    /\ attempt = 0
    /\ data \in ItemsMediaBodies
    /\ page = NoPage
    /\ vqd = None
    /\ img = None
    /\ wiki = Unset
    /\ ret = Unset
    /\ log = <<>>
    /\ served = <<>>
    /\ earlier = NoCall

SpecItems == InitItems /\ [][NextMedia]_vars

\* step 2 of get_duckduckgo_image alone, the token in hand: from the request
\* on, or from a 200 response with any body of ScrapeBodies on
InitScrape ==
    /\ species \in Names
    /\ lang = Langs[2]
    /\ stage = "media-list"
    /\ attempt = 0
    /\ \/ pc = "ddg_json" /\ data = NoData
       \/ pc = "ddg_parse" /\ data \in ScrapeBodies
    /\ page \in {pg \in Pages : extract_vqd(pg) # None}
    /\ vqd = extract_vqd(page)
    /\ img = None
    /\ wiki = None
    /\ ret = Unset
    /\ log = <<>>
    /\ served = <<>>
    /\ earlier = NoCall

NextScrape ==
    \/ get_duckduckgo_image_json /\ Idle
    \/ get_duckduckgo_image_first /\ Idle
    \/ get_bird_image_return /\ Idle

SpecScrape == InitScrape /\ [][NextScrape]_vars

(***************************************************************************)
(* The analysis flow: analyze_bird_sound and the handler of the analyse    *)
(* button, which calls get_bird_image.  A text is a sequence of pieces,    *)
(* each a white-space character or a word.                                 *)
(***************************************************************************)
WhiteSpace == {" ", "\t"}

\* str.strip(): white space is dropped at both ends
RECURSIVE lstrip(_)
lstrip(t) ==
    IF t # <<>> /\ t[1] \in WhiteSpace THEN lstrip(Tail(t)) ELSE t
RECURSIVE rstrip(_)
rstrip(t) ==
    IF t # <<>> /\ t[Len(t)] \in WhiteSpace
    THEN rstrip(SubSeq(t, 1, Len(t) - 1)) ELSE t
strip(t) == rstrip(lstrip(t))

\* the string a text spells
RECURSIVE Spell(_)
Spell(t) == IF t = <<>> THEN "" ELSE t[1] \o Spell(Tail(t))

\* a field of the model's JSON: missing, a value that is not a string (null,
\* a number), or a string
Missing == [kind |-> "missing", text |-> <<>>]
NotStr == [kind |-> "notstr", text |-> <<>>]
Str(t) == [kind |-> "str", text |-> t]
SpeciesFields ==
    {Missing, NotStr} \cup
    {Str(t) : t \in {<<>>, <<" ">>, <<"\t", " ">>, <<"suzume">>,
                     <<" ", "suzume", "\t">>}}
DescriptionFields == {Missing, NotStr, Str(<<"small", " ", "bird">>)}
\* confidence: missing, something float() takes, something it raises on
ConfidenceFields == {"missing", "number", "bad"}

\* what the model call and _extract_json produce: the call raises; the
\* content holds no JSON object (or is not a string); json.loads raises; the
\* object is empty; or an object with or without the three fields
Replies ==
    {[kind |-> k, species |-> Missing, confidence |-> "missing",
      description |-> Missing] : k \in {"raise", "nojson", "badjson", "empty"}}
    \cup
    {[kind |-> "obj", species |-> sp, confidence |-> c, description |-> d] :
        sp \in SpeciesFields, c \in ConfidenceFields, d \in DescriptionFields}

\* result.get(key, "").strip()
get_stripped(f) ==
    CASE f.kind = "missing" -> Ret(<<>>)
      [] f.kind = "notstr" -> Raise
      [] f.kind = "str" -> Ret(strip(f.text))

\* analyze_bird_sound: None on any exception, else the dict; of the dict the
\* species is kept
analyze_result(reply) ==
    IF reply.kind # "obj" THEN None
    ELSE LET sp == get_stripped(reply.species)
             d == get_stripped(reply.description)
         IN  IF sp.raised \/ reply.confidence = "bad" \/ d.raised THEN None
             ELSE Spell(sp.value)

\* result = analyze_bird_sound(audio_bytes)
analyze_bird_sound ==
    /\ pc = "analyse"
    /\ \E reply \in Replies :
          LET result == analyze_result(reply) IN
          IF result = None
          THEN pc' = "no_result" /\ species' = species
          ELSE pc' = "result" /\ species' = result
    /\ UNCHANGED <<lang, stage, attempt, data, page, vqd, img, wiki, ret, log>>

\* `if result:` and image_url = get_bird_image(result["species"])
ui_analyse_handler ==
    /\ pc = "result"
    /\ pc' = "call"
    /\ UNCHANGED <<species, lang, stage, attempt, data, page, vqd, img, wiki,
                   ret, log>>

InitFlow ==
    /\ pc = "analyse"
    /\ species = Unset
    /\ lang = Langs[1]
    /\ stage = "summary"
    /\ attempt = 0
    /\ data = NoData
    /\ page = NoPage
    /\ vqd = None
    /\ img = None
    /\ wiki = Unset
    /\ ret = Unset
    /\ log = <<>>
    /\ served = <<>>
    /\ earlier = NoCall

NextFlow ==
    \/ analyze_bird_sound /\ Idle
    \/ ui_analyse_handler /\ Idle
    \/ Next

\* one press of the analyse button: the analysis, then get_bird_image
SpecFlow == InitFlow /\ [][NextFlow]_vars

(***************************************************************************)
(* Two calls in a row.  get_bird_image is called again with the same name  *)
(* once the first call has ended, and the services answer the requests of  *)
(* the second call, one by one, as they answered those of the first.  The  *)
(* answers are drawn from a few bodies and pages of each kind.             *)
(***************************************************************************)
TwiceBodies ==
    {NoData, NotJson, NonObj,
     [kind |-> "obj", thumbnail |-> Absent, originalimage |-> Absent],
     [kind |-> "obj", thumbnail |-> Obj(Url("thumbnail", 1)),
      originalimage |-> Absent],
     MediaBody(<<>>),
     MediaBody(<<Item("image", Obj(Url("original", 1)), <<>>)>>),
     [kind |-> "obj", results |-> <<>>],
     [kind |-> "obj", results |->
        <<[kind |-> "obj", image |-> Url("image", 1), thumbnail |-> None]>>]}

TwicePages ==
    {NoPage, [assign |-> None, jsonkey |-> None],
     [assign |-> None, jsonkey |-> "tok-json"]}

\* the answer to the GET this step issues, as far as the call can see it
Answer == [ok |-> log'[Len(log')].ok, data |-> data', page |-> page']

\* the services answer the k-th GET of the second call as they answered the
\* k-th GET of the first
SameAnswers ==
    /\ data' \in TwiceBodies
    /\ page' \in TwicePages
    /\ (earlier.kind = "call" /\ Len(served) < Len(earlier.served)) =>
          Answer = earlier.served[Len(served) + 1]
    /\ served' = Append(served, Answer)
    /\ earlier' = earlier

\* the caller calls get_bird_image again, with the same name: a new frame,
\* in which no local is bound yet
get_bird_image_again ==
    /\ pc \in {"done", "raised"}
    /\ earlier = NoCall
    /\ earlier' = [kind |-> "call", pc |-> pc, ret |-> ret, log |-> log,
                   served |-> served]
    /\ pc' = "call"
    /\ lang' = Langs[1]
    /\ stage' = "summary"
    /\ attempt' = 0
    /\ data' = NoData
    /\ page' = NoPage
    /\ vqd' = None
    /\ img' = None
    /\ wiki' = Unset
    /\ ret' = Unset
    /\ log' = <<>>
    /\ served' = <<>>
    /\ UNCHANGED species

NextTwice ==
    \/ get_bird_image_call /\ Idle
    \/ request_with_retries_attempt /\ SameAnswers
    \/ request_with_retries_backoff /\ Idle
    \/ get_from_summary_parse /\ Idle
    \/ get_from_media_list_parse /\ Idle
    \/ get_image_from_lang_choose /\ Idle
    \/ get_wikipedia_image_loop /\ Idle
    \/ get_bird_image_choose /\ Idle
    \/ get_duckduckgo_image_search /\ SameAnswers
    \/ get_duckduckgo_image_json /\ SameAnswers
    \/ get_duckduckgo_image_first /\ Idle
    \/ get_bird_image_return /\ Idle
    \/ get_bird_image_again

\* two calls of get_bird_image in a row against services that repeat themselves
SpecTwice == Init /\ [][NextTwice]_vars

(***************************************************************************)
(* Reading the history.                                                    *)
(***************************************************************************)
Idx == 1..Len(log)

\* positions of the GETs to one endpoint
GetsTo(site, ep) ==
    {i \in Idx : log[i].ev = "get" /\ log[i].site = site /\ log[i].ep = ep}

\* positions of the GETs to DuckDuckGo
DdgGets == {i \in Idx : log[i].ev = "get" /\ log[i].site = "ddg"}

\* zero-based index of the attempt at position i among those to its endpoint
AttemptIndex(i) ==
    Cardinality({j \in GetsTo(log[i].site, log[i].ep) : j < i})

SetMax(S) == CHOOSE m \in S : \A x \in S : x <= m

\* position of the latest GET that came back 200 with a JSON body, 0 if none
LatestJsonOk ==
    LET S == {i \in Idx : log[i].ev = "get" /\ log[i].ok /\ log[i].ep # "search"}
    IN  IF S = {} THEN 0 ELSE SetMax(S)

\* the latest 200 JSON response came from this endpoint (data is its body
\* until the next GET)
LatestJsonFrom(site, ep) ==
    /\ LatestJsonOk # 0
    /\ log[LatestJsonOk].site = site
    /\ log[LatestJsonOk].ep = ep

\* the positions of the call from which a found image is only handed upwards
ReturnPath == {"json", "after_summary", "wiki_loop", "top", "done"}

\* the value on its way up is v, wherever the call stands on the return path
HandsUp(v) ==
    /\ pc \in ReturnPath
    /\ pc \in {"after_summary", "wiki_loop"} => img = v
    /\ pc = "top" => wiki = v
    /\ pc = "done" => ret = v

(***************************************************************************)
(* C1: when the ja summary comes back 200 with a non-empty thumbnail       *)
(* source, get_bird_image returns exactly that source, and the call issues *)
(* no request but those to the ja summary endpoint: none to the ja media   *)
(* list, to en, or to DuckDuckGo.                                          *)
(***************************************************************************)
JaThumbnailServed ==
    /\ LatestJsonFrom("ja", "summary")
    /\ data \in SummaryBodies
    /\ data.kind = "obj"
    /\ data.thumbnail.kind = "obj"
    /\ Truthy(data.thumbnail.source)

C1_ThumbnailShortCircuits ==
    JaThumbnailServed =>
        /\ HandsUp(data.thumbnail.source)
        /\ \A i \in Idx :
              log[i].ev = "get" => log[i].site = "ja" /\ log[i].ep = "summary"

\* reached after two failed attempts, with an original image served as well
C1_Witness ==
    /\ pc = "done"
    /\ JaThumbnailServed
    /\ data.originalimage = Obj(Url("originalimage", 1))
    /\ ret = Url("thumbnail", 1)
    /\ Cardinality(GetsTo("ja", "summary")) = 3

(***************************************************************************)
(* C2: when ja has been tried at both sub-strategies and the en summary    *)
(* hits (its 200 body yields a non-empty thumbnail or, failing that,       *)
(* original source), get_bird_image returns that value and no request goes *)
(* to the DuckDuckGo search page or image JSON.                            *)
(***************************************************************************)
\* what a summary body yields, read off the body: the thumbnail source if it
\* is non-empty, else the original-image source if it is non-empty
SummaryImage(body) ==
    IF body.kind # "obj" THEN None
    ELSE IF body.thumbnail.kind = "obj" /\ Truthy(body.thumbnail.source)
         THEN body.thumbnail.source
    ELSE IF /\ body.thumbnail.kind # "nonobj"
            /\ body.originalimage.kind = "obj"
            /\ Truthy(body.originalimage.source)
         THEN body.originalimage.source
    ELSE None

EnSummaryHit ==
    /\ GetsTo("ja", "summary") # {}
    /\ GetsTo("ja", "media-list") # {}
    /\ LatestJsonFrom("en", "summary")
    /\ data \in SummaryBodies
    /\ Truthy(SummaryImage(data))

C2_FallbackLanguageSkipsScrape ==
    EnSummaryHit => HandsUp(SummaryImage(data)) /\ DdgGets = {}

\* ja answered 200 at the media list without an image; en serves an original
\* image only
C2_Witness ==
    /\ pc = "done"
    /\ EnSummaryHit
    /\ \E i \in GetsTo("ja", "media-list") : log[i].ok
    /\ data.thumbnail = Absent
    /\ ret = Url("originalimage", 1)

(***************************************************************************)
(* C3: the scrape is attempted if and only if get_wikipedia_image returned *)
(* None.  When it returned None (all four lookups were tried and missed),  *)
(* get_duckduckgo_image is called with the same species name and its value *)
(* is what get_bird_image returns; when it returned an image, that image   *)
(* is returned and DuckDuckGo is never requested.                          *)
(***************************************************************************)
WikiEndpoints == {<<l, st>> : l \in {"ja", "en"}, st \in {"summary", "media-list"}}

C3_ScrapeIffEncyclopediaAbsent ==
    /\ DdgGets # {} => wiki = None
    /\ wiki = None =>
          /\ pc \in {"top", "ddg_search", "ddg_json", "ddg_parse", "ddg_ret",
                    "done"}
          /\ pc \in {"ddg_json", "ddg_parse", "ddg_ret", "done"} => DdgGets # {}
          /\ \A e \in WikiEndpoints : GetsTo(e[1], e[2]) # {}
          /\ pc = "done" => ret = img
    /\ wiki \notin {Unset, None} =>
          /\ pc \in {"top", "done"}
          /\ DdgGets = {}
          /\ pc = "done" => ret = wiki
    /\ \A i \in DdgGets : log[i].q = species

\* both languages missed and the scrape found an image
C3_Witness ==
    /\ pc = "done"
    /\ wiki = None
    /\ Cardinality(DdgGets) = 2
    /\ ret = Url("image", 1)

(***************************************************************************)
(* C4: get_bird_image never raises: whatever the upstream services answer  *)
(* at any stage (exception, status other than 200, a body that is not      *)
(* JSON, JSON of an unexpected shape), the call does not end in an         *)
(* exception.                                                              *)
(***************************************************************************)
C4_NeverRaises == pc # "raised"

(***************************************************************************)
(* C5: what get_bird_image returns is None or a non-empty string; it is    *)
(* never the empty string.                                                 *)
(***************************************************************************)
C5_ReturnsUrlOrNone == pc = "done" => ret = None \/ Truthy(ret)

(***************************************************************************)
(* C6: the image JSON is requested only right after a search page that     *)
(* came back 200 and matched a token pattern, with that token; a search    *)
(* page that failed or matched neither pattern ends the scrape with None   *)
(* and no further request.                                                 *)
(***************************************************************************)
PageHasToken(pg) == pg # NoPage /\ (pg.assign # None \/ pg.jsonkey # None)

C6_NoTokenNoImageJson ==
    /\ \A i \in GetsTo("ddg", "i.js") :
          /\ i > 1
          /\ i - 1 \in GetsTo("ddg", "search")
          /\ log[i - 1].ok
          /\ PageHasToken(page)
          /\ log[i].vqd \in {page.assign, page.jsonkey} \ {None}
    /\ \A i \in GetsTo("ddg", "search") :
          (~log[i].ok \/ ~PageHasToken(page)) =>
              /\ i = Len(log)
              /\ pc \in {"ddg_ret", "done"}
              /\ img = None
              /\ pc = "done" => ret = None

\* the search page came back 200 and matched neither pattern
C6_Witness ==
    /\ pc = "done"
    /\ \E i \in GetsTo("ddg", "search") : log[i].ok
    /\ page = [assign |-> None, jsonkey |-> None]
    /\ GetsTo("ddg", "i.js") = {}
    /\ ret = None

(***************************************************************************)
(* C7: _request_with_retries makes at most Retries + 1 attempts per URL;   *)
(* it returns the response of the first attempt that has status 200 and    *)
(* makes no attempt after it; any other status and any transport exception *)
(* is a failed attempt, swallowed; it returns None exactly after           *)
(* Retries + 1 failed attempts; no exception leaves it.                    *)
(***************************************************************************)
\* the fetch for this endpoint is still running
InProgress(e) == pc \in {"attempt", "backoff"} /\ lang = e[1] /\ stage = e[2]

AllFailed(A) == A # {} /\ \A i \in A : ~log[i].ok

C7_BoundedRetries ==
    /\ \A e \in WikiEndpoints :
          LET A == GetsTo(e[1], e[2]) IN
          /\ Cardinality(A) <= Retries + 1
          /\ \A i \in A : log[i].ok => i = SetMax(A)
          /\ AllFailed(A) /\ ~InProgress(e) =>
                /\ Cardinality(A) = Retries + 1
                /\ (lang = e[1] /\ stage = e[2]
                    /\ pc \in {"after_summary", "wiki_loop"}) => img = None
    /\ pc = "json" =>
          /\ Len(log) \in GetsTo(lang, stage)
          /\ log[Len(log)].ok
    /\ pc = "backoff" =>
          /\ Len(log) \in GetsTo(lang, stage)
          /\ ~log[Len(log)].ok
    /\ pc = "raised" => log[Len(log)].ev = "get" /\ log[Len(log)].ok

\* the third attempt is the first with status 200, and is returned
C7_Witness ==
    /\ pc = "json"
    /\ Cardinality(GetsTo(lang, stage)) = Retries + 1
    /\ log[Len(log)].ok

(***************************************************************************)
(* C8: _request_with_retries sleeps once after each failed attempt but the *)
(* last, for 0.4 * (i + 1) seconds after the attempt of zero-based index i *)
(* (0.4 s, then 0.8 s), and never after a successful attempt or after the  *)
(* last failure.  Delays are in tenths of a second.                        *)
(***************************************************************************)
WikiGet(i) == log[i].ev = "get" /\ log[i].site \in {"ja", "en"}

C8_BackoffSleeps ==
    \A i \in Idx :
        /\ (WikiGet(i) /\ ~log[i].ok /\ AttemptIndex(i) < Retries) =>
              IF i = Len(log) THEN pc = "backoff"
              ELSE log[i + 1] = Sleep(4 * (AttemptIndex(i) + 1))
        /\ (log[i].ev = "get" /\ i < Len(log)
            /\ (log[i].ok \/ AttemptIndex(i) >= Retries)) =>
              log[i + 1].ev # "sleep"
        /\ log[i].ev = "sleep" =>
              i > 1 /\ WikiGet(i - 1) /\ ~log[i - 1].ok

\* three failures with two sleeps and none after the third, then two failures
\* and a 200 on the third attempt after sleeps of 0.4 s and 0.8 s
C8_Witness ==
    /\ pc = "json"
    /\ lang = "ja"
    /\ stage = "media-list"
    /\ Len(log) = 10
    /\ log[2] = Sleep(4) /\ log[4] = Sleep(8)
    /\ log[5].ev = "get" /\ log[6].ev = "get"
    /\ log[7] = Sleep(4) /\ log[9] = Sleep(8)
    /\ log[10].ok

(***************************************************************************)
(* C9: every encyclopedia fetch is retried (a failed attempt that is not   *)
(* the third is followed by another attempt at the same endpoint), and no  *)
(* scrape fetch is: one call of get_duckduckgo_image requests the search   *)
(* page exactly once and the image JSON at most once, and a failed scrape  *)
(* request is the last request of the call, which then yields None.        *)
(***************************************************************************)
C9_RetryOnlyForEncyclopedia ==
    /\ \A i \in Idx :
          (WikiGet(i) /\ ~log[i].ok /\ AttemptIndex(i) < Retries
           /\ i + 2 <= Len(log)) =>
              /\ i + 2 \in GetsTo(log[i].site, log[i].ep)
              /\ AttemptIndex(i + 2) = AttemptIndex(i) + 1
    /\ Cardinality(GetsTo("ddg", "search")) <= 1
    /\ Cardinality(GetsTo("ddg", "i.js")) <= 1
    /\ pc \in {"ddg_json", "ddg_parse", "ddg_ret"}
          \/ (pc = "done" /\ wiki = None) =>
          Cardinality(GetsTo("ddg", "search")) = 1
    /\ \A i \in DdgGets :
          ~log[i].ok =>
              /\ i = Len(log)
              /\ pc \in {"ddg_ret", "done"}
              /\ img = None
              /\ pc = "done" => ret = None

\* all four encyclopedia lookups used their three attempts; the search page
\* came back once, the image JSON failed once
C9_Witness ==
    /\ pc = "done"
    /\ \A e \in WikiEndpoints : Cardinality(GetsTo(e[1], e[2])) = Retries + 1
    /\ \E i \in GetsTo("ddg", "search") : log[i].ok
    /\ \E i \in GetsTo("ddg", "i.js") : ~log[i].ok
    /\ ret = None

(***************************************************************************)
(* C10, as stated: for an image item without an original source, the       *)
(* media-list lookup yields the src of the srcset variant with the         *)
(* numerically largest declared width, also when some widths are missing   *)
(* or not integers.  Stated for srcsets of objects that all have a         *)
(* non-empty src, with widths that are missing, non-negative integers,     *)
(* floats or strings, one variant declaring a number larger than every     *)
(* other declared number.                                                  *)
(***************************************************************************)
\* the item under test: the only item of the body
TheItem == data.items[1]

ItemWithoutOriginal ==
    /\ pc # "json"
    /\ TheItem.type = "image"
    /\ TheItem.original = Absent

\* the width a variant declares as a number, doubled (a float is v + 0.5)
DeclaresNumber(s) == s.width.kind \in {"int", "float"}
TwiceWidth(s) == IF s.width.kind = "float" THEN 2 * s.width.v + 1 ELSE 2 * s.width.v

C10_LargestDeclaredWidth ==
    LET ss == TheItem.srcset IN
    (/\ ItemWithoutOriginal
     /\ \A i \in 1..Len(ss) :
           /\ ss[i].kind = "obj"
           /\ Truthy(ss[i].src)
           /\ ss[i].width.kind \in {"absent", "int", "float", "str"}
           /\ ss[i].width.v >= 0) =>
        \A i \in 1..Len(ss) :
            (/\ DeclaresNumber(ss[i])
             /\ \A j \in 1..Len(ss) \ {i} :
                   DeclaresNumber(ss[j]) => TwiceWidth(ss[j]) < TwiceWidth(ss[i])) =>
                pc = "wiki_loop" /\ img = ss[i].src

(***************************************************************************)
(* C10, amended: for an image item without an original source, the lookup  *)
(* yields the src of the first-listed variant of largest width among the   *)
(* variants that have a non-empty src and an integer width of at least 0,  *)
(* a missing width counting as 0 and true as 1; variants with another      *)
(* width (a float, a string, a negative integer) or without src are passed *)
(* over, and with no variant left the item yields nothing.  A srcset entry *)
(* that is not an object makes the lookup raise instead.                   *)
(***************************************************************************)
CountedWidth(s) == IF s.width.kind = "absent" THEN 0 ELSE s.width.v

Qualifies(s) ==
    /\ Truthy(s.src)
    /\ s.width.kind \in {"absent", "int", "bool"}
    /\ CountedWidth(s) >= 0

WidestQualifying(ss) ==
    LET Q == {i \in 1..Len(ss) : Qualifies(ss[i])}
    IN  IF Q = {} THEN None
        ELSE ss[CHOOSE i \in Q : \A j \in Q :
                    \/ CountedWidth(ss[j]) < CountedWidth(ss[i])
                    \/ CountedWidth(ss[j]) = CountedWidth(ss[i]) /\ i <= j].src

C10_WidestIntegerWidth ==
    LET ss == TheItem.srcset IN
    ItemWithoutOriginal =>
        IF \E i \in 1..Len(ss) : ss[i].kind = "nonobj"
        THEN pc = "raised"
        ELSE pc = "wiki_loop" /\ img = WidestQualifying(ss)

\* the srcset [{src 1, width 100}, {src 2, width 300}] yields src 2
C10_Witness ==
    /\ ItemWithoutOriginal
    /\ TheItem.srcset =
          << [kind |-> "obj", src |-> Url("src", 1), width |-> IntWidth(100)],
             [kind |-> "obj", src |-> Url("src", 2), width |-> IntWidth(300)] >>
    /\ img = Url("src", 2)

(***************************************************************************)
(* C11: of two calls in a row with the same species name against services  *)
(* that give the same answers, the second issues the same requests (and    *)
(* sleeps) in the same order as the first, all of them again, and ends as  *)
(* the first did, with the same return value.  Nothing of the first call   *)
(* stands in for a request of the second.                                  *)
(***************************************************************************)
SecondCall == earlier.kind = "call"

C11_SecondCallRepeats ==
    SecondCall =>
        /\ Len(log) <= Len(earlier.log)
        /\ \A i \in Idx : log[i] = earlier.log[i]
        /\ pc \in {"done", "raised"} =>
              /\ pc = earlier.pc
              /\ ret = earlier.ret
              /\ log = earlier.log

\* both calls went through failed attempts and sleeps to the scrape, fetched
\* the search page and the image JSON, and returned the scraped image
C11_Witness ==
    /\ SecondCall
    /\ pc = "done"
    /\ ret = Url("image", 1)
    /\ Cardinality(DdgGets) = 2
    /\ \E i \in Idx : log[i].ev = "sleep"
    /\ Len(served) = Len(earlier.served)

(***************************************************************************)
(* C12, as stated: the delay slept after the failed attempt of zero-based  *)
(* index i is 0.4 * i seconds.  Delays are in tenths of a second.          *)
(***************************************************************************)
SleepsAt == {i \in Idx : log[i].ev = "sleep"}

\* zero-based index of the failed attempt the sleep at position i follows
SleptAfter(i) == AttemptIndex(i - 1)

C12_DelayIsIndexTimes ==
    \A i \in SleepsAt : log[i].delay = 4 * SleptAfter(i)

(***************************************************************************)
(* C12, amended: the delay slept after the failed attempt of zero-based    *)
(* index i is 0.4 * (i + 1) seconds, which grows linearly: the first sleep *)
(* of a fetch is 0.4 s and each later sleep of that fetch is 0.4 s longer  *)
(* than the one before.                                                    *)
(***************************************************************************)
C12_DelayIsIndexPlusOneTimes ==
    \A i \in SleepsAt :
        /\ log[i].delay = 4 * (SleptAfter(i) + 1)
        /\ SleptAfter(i) = 0 => log[i].delay = 4
        /\ SleptAfter(i) > 0 =>
              /\ i - 2 \in SleepsAt
              /\ log[i].delay = log[i - 2].delay + 4

\* the en media list failed twice: sleeps of 0.4 s and 0.8 s, the latest last
C12_Witness ==
    /\ pc = "attempt"
    /\ lang = "en"
    /\ stage = "media-list"
    /\ attempt = Retries
    /\ log[Len(log)] = Sleep(8)
    /\ log[Len(log) - 2] = Sleep(4)

(***************************************************************************)
(* C13: within one language, the summary lookup returns the thumbnail      *)
(* source when it is present and non-empty, otherwise the original-image   *)
(* source; the media list is requested only if the summary lookup yielded  *)
(* nothing, and in every such case: when all attempts failed, when the     *)
(* body was not JSON, when the 200 response carried neither image field.   *)
(***************************************************************************)
\* the source an image field of the body carries, None where it carries none
SourceIn(f) == IF f.kind = "obj" THEN f.source ELSE None

ThumbnailElseOriginal(body) ==
    IF body.kind # "obj" THEN None
    ELSE IF Truthy(SourceIn(body.thumbnail)) THEN SourceIn(body.thumbnail)
    ELSE SourceIn(body.originalimage)

\* the latest GET fetched the summary of lang with status 200, and its body
\* has been read
SummaryRead ==
    /\ LatestJsonFrom(lang, "summary")
    /\ LatestJsonOk = Len(log)
    /\ pc # "json"

\* the summary lookup of language l has been made and is over
SummaryOver(l) ==
    /\ GetsTo(l, "summary") # {}
    /\ ~(lang = l /\ stage = "summary" /\ pc \in {"attempt", "backoff", "json"})

\* the summary's image is on its way up and nothing else was asked of l
SummaryHandedUp(l) ==
    /\ GetsTo(l, "media-list") = {}
    /\ \/ pc \in {"after_summary", "wiki_loop"} /\ Truthy(img)
       \/ pc = "top" /\ Truthy(wiki)
       \/ pc = "done" /\ Truthy(ret)

\* the media list of l is the next request, or has been requested
MediaListDue(l) ==
    \/ lang = l /\ stage = "summary" /\ pc = "after_summary" /\ ~Truthy(img)
    \/ lang = l /\ stage = "media-list" /\ pc = "attempt"
    \/ GetsTo(l, "media-list") # {}

C13_MediaListIffSummaryEmpty ==
    /\ (pc = "after_summary" /\ SummaryRead) =>
          img = ThumbnailElseOriginal(data)
    /\ \A l \in {"ja", "en"} :
          /\ SummaryOver(l) => SummaryHandedUp(l) \/ MediaListDue(l)
          /\ (lang = l /\ stage = "media-list" /\ GetsTo(l, "media-list") = {}) =>
                ~Truthy(img)
          /\ (SummaryOver(l) /\ SummaryRead /\ lang = l
              /\ ~Truthy(ThumbnailElseOriginal(data))) => MediaListDue(l)

(***************************************************************************)
(* C14: the media-list lookup scans the items in their listed order and    *)
(* returns the URL of the first item whose type is "image" and that yields *)
(* a usable URL: the item's original source if it has one, otherwise its   *)
(* widest srcset variant (the widest in the sense of C10 as amended).  An  *)
(* item of another type never supplies the result; no URL of a later item  *)
(* is returned while an earlier image item yields one; None is returned    *)
(* only if no image item yields a usable URL.                              *)
(***************************************************************************)
\* the variants of a srcset that are objects, in their order
RECURSIVE ObjectVariants(_)
ObjectVariants(ss) ==
    IF ss = <<>> THEN <<>>
    ELSE IF ss[1].kind = "obj" THEN <<ss[1]>> \o ObjectVariants(Tail(ss))
    ELSE ObjectVariants(Tail(ss))

\* the URL an item yields, None if it yields none
UsableUrl(item) ==
    IF item.kind # "obj" \/ item.type # "image" THEN None
    ELSE IF Truthy(SourceIn(item.original)) THEN SourceIn(item.original)
    ELSE WidestQualifying(ObjectVariants(item.srcset))

FirstUsableUrl(items) ==
    LET U == {i \in 1..Len(items) : Truthy(UsableUrl(items[i]))}
    IN  IF U = {} THEN None
        ELSE UsableUrl(items[CHOOSE i \in U : \A j \in U : i <= j])

C14_FirstImageItemInOrder ==
    pc # "json" =>
        /\ Truthy(FirstUsableUrl(data.items)) =>
              pc = "wiki_loop" /\ img = FirstUsableUrl(data.items)
        /\ pc = "wiki_loop" => img = FirstUsableUrl(data.items)

(***************************************************************************)
(* C15: get_wikipedia_image tries ja, then en, and in each the summary,    *)
(* then the media list, with the species name unchanged as the title of    *)
(* every lookup.  It returns the first non-empty result and requests       *)
(* nothing of en once ja has produced one; every en request comes after    *)
(* both ja lookups have ended (all attempts made, or a 200 response) and   *)
(* missed; it returns None only if both lookups missed for both languages. *)
(***************************************************************************)
WikiGets == {i \in Idx : WikiGet(i)}

\* the rank of a lookup in the order ja summary, ja media list, en summary,
\* en media list
LookupRank(l, st) ==
    (IF l = "ja" THEN 0 ELSE 2) + (IF st = "summary" THEN 1 ELSE 2)

\* the fetch for endpoint e has ended: a 200 response last, or all attempts
\* made
FetchEnded(e) ==
    LET A == GetsTo(e[1], e[2]) IN
    /\ A # {}
    /\ log[SetMax(A)].ok \/ Cardinality(A) = Retries + 1
    /\ ~InProgress(e)

C15_LanguagesInOrder ==
    /\ \A i \in WikiGets :
          /\ log[i].q = species
          /\ \A j \in WikiGets :
                i < j => LookupRank(log[i].site, log[i].ep)
                            <= LookupRank(log[j].site, log[j].ep)
    /\ lang = "en" =>
          /\ FetchEnded(<<"ja", "summary">>)
          /\ FetchEnded(<<"ja", "media-list">>)
          /\ (GetsTo("en", "summary") = {}) => ~Truthy(img)
    /\ lang = "ja" => GetsTo("en", "summary") \cup GetsTo("en", "media-list") = {}
    /\ (pc \in {"top", "done"} /\ Truthy(wiki)) =>
          /\ wiki = img
          /\ LatestJsonFrom(lang, stage)
          /\ LatestJsonOk = SetMax(WikiGets)
    /\ wiki = None =>
          /\ lang = "en"
          /\ stage = "media-list"
          /\ \A e \in WikiEndpoints : FetchEnded(e)

\* ja missed at both endpoints, each after all three attempts; the en summary
\* missed as well and the en media list supplied the image
C15_Witness ==
    /\ pc = "top"
    /\ lang = "en"
    /\ stage = "media-list"
    /\ wiki = Url("original", 1)
    /\ Cardinality(GetsTo("ja", "summary")) = Retries + 1
    /\ Cardinality(GetsTo("ja", "media-list")) = Retries + 1

(***************************************************************************)
(* C16: in step 2 of the scrape only the first entry of the results list   *)
(* is consulted.  The function returns that entry's image field when it is *)
(* present (it has a non-empty value), otherwise its thumbnail field; it   *)
(* returns None when the results list is empty or missing, when the fetch  *)
(* of the image JSON is not 200 or throws, and when the body does not      *)
(* parse.  A later entry is never used, also when the first entry has      *)
(* neither field.                                                          *)
(***************************************************************************)
\* step 2 is over: the value the scrape hands back
ScrapeOver == pc \in {"ddg_ret", "done"}
Scraped == IF pc = "done" THEN ret ELSE img

\* the fetch of the image JSON failed: its GET is the latest and not a 200
ImageJsonFailed ==
    /\ log # <<>>
    /\ Len(log) \in GetsTo("ddg", "i.js")
    /\ ~log[Len(log)].ok

\* the URLs the entries after the first carry
LaterUrls(results) ==
    UNION {{results[i].image, results[i].thumbnail} \ {None, Empty} :
              i \in {j \in 2..Len(results) : results[j].kind = "obj"}}

C16_FirstResultOnly ==
    ScrapeOver =>
        /\ ImageJsonFailed => data = NoData /\ Scraped = None
        /\ data.kind \in {"notjson", "nonobj"} => Scraped = None
        /\ data.kind = "obj" =>
              /\ data.results = <<>> => Scraped = None
              /\ data.results # <<>> =>
                    LET first == data.results[1] IN
                    /\ Scraped \notin LaterUrls(data.results)
                    /\ first.kind = "obj" =>
                          /\ Truthy(first.image) => Scraped = first.image
                          /\ ~Truthy(first.image) => Scraped = first.thumbnail
                          /\ (~Truthy(first.image) /\ ~Truthy(first.thumbnail))
                                => ~Truthy(Scraped)

\* the first entry has neither field and the second has both: nothing of the
\* second is returned
C16_Witness ==
    /\ pc = "done"
    /\ data.kind = "obj"
    /\ Len(data.results) = 2
    /\ data.results[1] = [kind |-> "obj", image |-> None, thumbnail |-> None]
    /\ data.results[2] = [kind |-> "obj", image |-> Url("image", 2),
                          thumbnail |-> Url("thumbnail", 2)]
    /\ ret = None

(***************************************************************************)
(* C17: the species name handed to get_bird_image is never empty, whatever *)
(* the model answered: also when the species field of its JSON is empty,   *)
(* white space only, or missing.                                           *)
(***************************************************************************)
\* get_bird_image has been called
Called == pc \notin {"analyse", "result", "no_result"}

C17_SpeciesNeverEmpty == Called => species # Empty

(***************************************************************************)
(* C18: only a status other than 200 or a transport exception leads to a   *)
(* retry.  After an encyclopedia attempt that came back 200 no further     *)
(* attempt is made at that endpoint, whatever the body; a 200 response     *)
(* whose body is not JSON or lacks every expected field makes the lookup   *)
(* miss after that one attempt, and the chain moves on to the next stage   *)
(* without sleeping.                                                       *)
(***************************************************************************)
\* the body is not JSON, or it is JSON without any of the fields the lookup
\* reads (thumbnail and originalimage; items)
LacksEveryField(body) ==
    \/ body.kind \in {"notjson", "nonobj"}
    \/ /\ body \in SummaryBodies
       /\ body.kind = "obj"
       /\ body.thumbnail = Absent
       /\ body.originalimage = Absent
    \/ body = MediaBody(<<>>)

\* the lookup that got the latest response has missed and the chain is on its
\* way to the next stage, or at its first request
MovingOn ==
    LET l == log[Len(log)].site
        st == log[Len(log)].ep
    IN  \/ pc = "after_summary" /\ st = "summary" /\ ~Truthy(img)
        \/ pc = "wiki_loop" /\ st = "media-list" /\ ~Truthy(img)
        \/ /\ pc = "attempt"
           /\ attempt = 0
           /\ LookupRank(lang, stage) = LookupRank(l, st) + 1
        \/ pc \in {"top", "ddg_search"} /\ <<l, st>> = <<"en", "media-list">>
                                          /\ wiki = None

C18_OnlyFailuresRetry ==
    /\ \A i \in WikiGets :
          /\ log[i].ok =>
                /\ \A j \in GetsTo(log[i].site, log[i].ep) : j <= i
                /\ i < Len(log) => log[i + 1].ev = "get"
          /\ AttemptIndex(i) > 0 =>
                /\ i > 2
                /\ log[i - 1].ev = "sleep"
                /\ i - 2 \in GetsTo(log[i].site, log[i].ep)
                /\ ~log[i - 2].ok
    /\ (/\ log # <<>>
        /\ LatestJsonOk = Len(log)
        /\ WikiGet(Len(log))
        /\ pc # "json"
        /\ LacksEveryField(data)) => MovingOn

(***************************************************************************)
(* C19: every call of get_bird_image comes to its end (a return or, see    *)
(* C4, an exception), whatever the services answer, after at most 14 GETs  *)
(* (4 encyclopedia lookups of 3 attempts, the search page, the image JSON) *)
(* and at most 8 sleeps, its requests issued one at a time.                *)
(***************************************************************************)
GetsAt == {i \in Idx : log[i].ev = "get"}

Ended == pc \in {"done", "raised"}

WorkBounded ==
    /\ Cardinality(GetsAt) <= Cardinality(WikiEndpoints) * (Retries + 1) + 2
    /\ Cardinality(SleepsAt) <= Cardinality(WikiEndpoints) * Retries

\* a step issues at most one request, and none once the call has ended
OneAtATime ==
    /\ Len(log') <= Len(log) + 1
    /\ Ended => log' = log

C19_Terminates ==
    /\ []WorkBounded
    /\ [][OneAtATime]_vars
    /\ <>Ended

\* the longest call: every encyclopedia attempt failed, 14 GETs and 8 sleeps
C19_Witness ==
    /\ pc = "done"
    /\ Cardinality(GetsAt) = 14
    /\ Cardinality(SleepsAt) = 8

====
